---- MODULE Spec2Model ----
(***************************************************************************)
(* waveshare-modbus: a tokio Mutex around one tokio-modbus Context         *)
(* (ThreadSafeContext, src/lib.rs) shared by the device facades            *)
(* AnalogInput, AnalogOutput and DigitalIO, each of which selects its own  *)
(* slave and then issues one Modbus transaction.                           *)
(*                                                                         *)
(* The model follows the await points of the async code: a task is         *)
(* suspended while it waits for the mutex and while the collaborator's     *)
(* primitive is in flight; everything between two await points is one step.*)
(***************************************************************************)
EXTENDS Integers, Sequences, FiniteSets, TLC

(* ------------------------------------------------------------------ *)
(* Register maps                                                      *)
(* ------------------------------------------------------------------ *)

UartParameters == 8192
DeviceAddress == 16384
SoftwareVersion == 32768

AnalogInput_InputChannels == 0
AnalogInput_AnalogMode == 4096
AnalogOutput_AnalogValue == 0

OutputChannel == 0
ControlAllRegisters == 255
OutputChannelFlashOn == 512
OutputChannelFlashOff == 1024
DigitalIO_InputChannels == 0
DigitalIO_ControlMode == 4096

Action_On == 65280
Action_Off == 0

\* a u16 is an integer modulo 2^16
U16 == 65536

\* enum Channel: Channel0 .. Channel7, repr(u16)
Channel == 0 .. 7

\* enum Baudrates, enum Parity, repr(u16)
Baudrates == 0 .. 7
Parity == 0 .. 2

\* digital::ControlMode: Command, Linked, Flip
DigitalIO_ControlModes == 0 .. 2

\* analog_in::ControlMode / analog_out::ControlMode as u16
ControlModeName == <<"V0V10", "V2V10", "C0C20", "C4C20", "RAW">>

ControlMode_as_u16(mode) == CHOOSE k \in 0 .. 4 : ControlModeName[k + 1] = mode

from_u16_defaulting(value) ==
  IF value \in 1 .. 4 THEN [kind |-> "Ok", value |-> ControlModeName[value + 1]]
  ELSE [kind |-> "Ok", value |-> "V0V10"]

\* analog_in::ControlMode::from_u16
from_u16(value) ==
  CASE value = 0 -> [kind |-> "Ok", value |-> "V0V10"]
    [] value = 1 -> [kind |-> "Ok", value |-> "V2V10"]
    [] value = 2 -> [kind |-> "Ok", value |-> "C0C20"]
    [] value = 3 -> [kind |-> "Ok", value |-> "C4C20"]
    [] value = 4 -> [kind |-> "Ok", value |-> "RAW"]
    [] OTHER -> [kind |-> "InvalidControlMode"]

\* channel as u16 + base as u16
AddU16(a, b) == (a + b) % U16

UartValue_swapped(baud, parity) == ((baud * 256) % U16) + parity

\* ((parity as u16) << 8) | (baud as u16): baud < 256, so the or is a sum
UartValue(baud, parity) == ((parity * 256) % U16) + baud

ActionsToCoils_inverted(actions) ==
  [i \in 1 .. Len(actions) |-> actions[i] # Action_On]

\* actions.map(|x| x == Action::On)
ActionsToCoils(actions) == [i \in 1 .. Len(actions) |-> actions[i] = Action_On]

(* ------------------------------------------------------------------ *)
(* Conversions                                                         *)
(* ------------------------------------------------------------------ *)

\* a u8 is an integer modulo 2^8
U8 == 256

Channel_try_from_wrapping(value) == [kind |-> "Ok", value |-> value % 8]

\* impl TryFrom<u8> for Channel
Channel_try_from(value) ==
  CASE value = 0 -> [kind |-> "Ok", value |-> 0]
    [] value = 1 -> [kind |-> "Ok", value |-> 1]
    [] value = 2 -> [kind |-> "Ok", value |-> 2]
    [] value = 3 -> [kind |-> "Ok", value |-> 3]
    [] value = 4 -> [kind |-> "Ok", value |-> 4]
    [] value = 5 -> [kind |-> "Ok", value |-> 5]
    [] value = 6 -> [kind |-> "Ok", value |-> 6]
    [] value = 7 -> [kind |-> "Ok", value |-> 7]
    [] OTHER -> [kind |-> "Err", err |-> "Invalid Channel"]

\* analog_out::ControlMode as u16
AnalogOutput_ControlModeName == <<"V0V10", "V2V10", "C0C20", "C4C20", "RAW">>

AnalogOutput_ControlMode_as_u16(mode) ==
  CHOOSE k \in 0 .. 4 : AnalogOutput_ControlModeName[k + 1] = mode

\* analog_out::ControlMode::from_u16
AnalogOutput_from_u16(value) ==
  CASE value = 0 -> [kind |-> "Ok", value |-> "V0V10"]
    [] value = 1 -> [kind |-> "Ok", value |-> "V2V10"]
    [] value = 2 -> [kind |-> "Ok", value |-> "C0C20"]
    [] value = 3 -> [kind |-> "Ok", value |-> "C4C20"]
    [] value = 4 -> [kind |-> "Ok", value |-> "RAW"]
    [] OTHER -> [kind |-> "InvalidControlMode"]

\* data & mask, for a mask of one bit
BitAnd(data, mask) == ((data \div mask) % 2) * mask

\* out | mask, for a mask of one bit
BitOr(out, mask) == IF (out \div mask) % 2 = 1 THEN out ELSE (out + mask) % U8

\* the masks of IoBank's fields ch0 .. ch7
IoBankMask == <<1, 2, 4, 8, 16, 32, 64, 128>>

IoBank_from_low7(data) == [n \in 1 .. 8 |-> n < 8 /\ BitAnd(data, IoBankMask[n]) > 0]

\* impl From<u8> for IoBank: chN = data & mask > 0
IoBank_from(data) == [n \in 1 .. 8 |-> BitAnd(data, IoBankMask[n]) > 0]

\* impl Into<u8> for IoBank: out starts at 0; if chN { out |= mask }, ch0 first
RECURSIVE IoBank_into_from(_, _, _)
IoBank_into_from(bank, n, out) ==
  IF n > 8 THEN out
  ELSE IoBank_into_from(bank, n + 1, IF bank[n] THEN BitOr(out, IoBankMask[n]) ELSE out)

IoBank_into(bank) == IoBank_into_from(bank, 1, 0)

\* enum Action, repr(u16)
Action == {Action_On, Action_Off}

as_action_array_reversed(bank) ==
  [n \in 1 .. 8 |-> IF bank[9 - n] THEN Action_On ELSE Action_Off]

\* IoBank::as_action_array: [if self.ch0 { On } else { Off }, ..., ch7]
as_action_array(bank) == [n \in 1 .. 8 |-> IF bank[n] THEN Action_On ELSE Action_Off]

(* ------------------------------------------------------------------ *)
(* The collaborator (tokio-modbus Context): requests and outcomes      *)
(* ------------------------------------------------------------------ *)

\* Result<Result<T, ExceptionCode>, Error> as yielded by a primitive
Err(e) == [tag |-> "Err", err |-> e]
Exception(code) == [tag |-> "Exception", code |-> code]
Ok(data) == [tag |-> "Ok", data |-> data]

\* ThreadSafeContext's primitives: the arguments are handed to the
\* Context's primitive of the same name unchanged.
call(request) == [fn |-> "call", addr |-> request.addr, cnt |-> request.cnt, data |-> request.data]
disconnect == [fn |-> "disconnect", addr |-> 0, cnt |-> 0, data |-> <<>>]
read_coils(addr, cnt) == [fn |-> "read_coils", addr |-> addr, cnt |-> cnt, data |-> <<>>]
read_discrete_inputs(addr, cnt) ==
  [fn |-> "read_discrete_inputs", addr |-> addr, cnt |-> cnt, data |-> <<>>]
read_holding_registers(addr, cnt) ==
  [fn |-> "read_holding_registers", addr |-> addr, cnt |-> cnt, data |-> <<>>]
read_input_registers(addr, cnt) ==
  [fn |-> "read_input_registers", addr |-> addr, cnt |-> cnt, data |-> <<>>]
read_write_multiple_registers(read_addr, read_count, write_addr, write_data) ==
  [fn |-> "read_write_multiple_registers", addr |-> read_addr, cnt |-> read_count,
   data |-> <<write_addr>> \o write_data]
write_single_coil(addr, coil) ==
  [fn |-> "write_single_coil", addr |-> addr, cnt |-> 1, data |-> <<coil>>]
write_single_register(addr, word) ==
  [fn |-> "write_single_register", addr |-> addr, cnt |-> 1, data |-> <<word>>]
write_multiple_coils(addr, coils) ==
  [fn |-> "write_multiple_coils", addr |-> addr, cnt |-> Len(coils), data |-> coils]
write_multiple_registers(addr, words) ==
  [fn |-> "write_multiple_registers", addr |-> addr, cnt |-> Len(words), data |-> words]
masked_write_register(addr, and_mask, or_mask) ==
  [fn |-> "masked_write_register", addr |-> addr, cnt |-> 1, data |-> <<and_mask, or_mask>>]

(* ------------------------------------------------------------------ *)
(* Facade operations: the request each one forms                       *)
(* ------------------------------------------------------------------ *)

AnalogInput_read_input_channel_status(channel) ==
  read_input_registers(AddU16(channel, AnalogInput_InputChannels), 1)
AnalogInput_read_input_channels ==
  read_input_registers(AnalogInput_InputChannels, 8)
AnalogInput_write_control_mode(control_mode, channel) ==
  write_single_register(AddU16(AnalogInput_AnalogMode, channel), ControlMode_as_u16(control_mode))
AnalogInput_read_control_mode(channel) ==
  read_holding_registers(AddU16(AnalogInput_AnalogMode, channel), 1)

AnalogOutput_read_output_channel_value(channel) ==
  read_holding_registers(AddU16(channel, AnalogOutput_AnalogValue), 1)
AnalogOutput_write_output_channel_value(channel, value) ==
  write_single_register(AddU16(channel, AnalogOutput_AnalogValue), value)

DigitalIO_write_output_channel_nonzero(channel, action) ==
  write_single_coil(AddU16(channel, OutputChannel), action = Action_Off)

DigitalIO_write_output_channel(channel, action) ==
  write_single_coil(AddU16(channel, OutputChannel), IF action = Action_On THEN TRUE ELSE FALSE)
DigitalIO_close_all_outputs_per_channel == write_single_coil(OutputChannel, FALSE)

DigitalIO_open_all_outputs == write_single_coil(ControlAllRegisters, TRUE)
DigitalIO_close_all_outputs == write_single_coil(ControlAllRegisters, FALSE)
DigitalIO_write_output_channels(actions) ==
  write_multiple_coils(OutputChannel, ActionsToCoils(actions))
DigitalIO_flash_output_on(channel, interval) ==
  write_single_register(AddU16(channel, OutputChannelFlashOn), interval)
DigitalIO_flash_output_off_at_flash_on(channel, interval) ==
  write_single_register(AddU16(channel, OutputChannelFlashOn), interval)

DigitalIO_flash_output_off(channel, interval) ==
  write_single_register(AddU16(channel, OutputChannelFlashOff), interval)
DigitalIO_read_input_channel_status(channel) ==
  read_discrete_inputs(AddU16(channel, DigitalIO_InputChannels), 1)
DigitalIO_read_input_channels == read_discrete_inputs(DigitalIO_InputChannels, 8)
DigitalIO_set_output_control_mode(channel, mode) ==
  write_single_register(AddU16(DigitalIO_ControlMode, channel), mode)

\* impl WaveshareModbus for DigitalIO
set_uart_parameters(baud, parity) ==
  write_single_register(UartParameters, UartValue(baud, parity))
set_device_address(address) == write_single_register(DeviceAddress, address)
read_software_version == read_holding_registers(SoftwareVersion, 1)

\* impl WaveshareModbus for AnalogInput
AnalogInput_set_uart_parameters(baud, parity) ==
  write_single_register(UartParameters, UartValue(baud, parity))
AnalogInput_set_device_address(address) == write_single_register(DeviceAddress, address)
AnalogInput_read_software_version == read_holding_registers(SoftwareVersion, 1)

AnalogOutput_set_device_address_elsewhere(address) ==
  write_single_register(UartParameters, address)

\* impl WaveshareModbus for AnalogOutput
AnalogOutput_set_uart_parameters(baud, parity) ==
  write_single_register(UartParameters, UartValue(baud, parity))
AnalogOutput_set_device_address(address) == write_single_register(DeviceAddress, address)
AnalogOutput_read_software_version == read_holding_registers(SoftwareVersion, 1)

(* ------------------------------------------------------------------ *)
(* Facade operations: the value each one returns                       *)
(* ------------------------------------------------------------------ *)

MapErr_collapsed(outcome) ==
  IF outcome.tag = "Err" THEN [kind |-> "ModbusException", code |-> "ServerDeviceFailure"]
  ELSE [kind |-> "ModbusException", code |-> outcome.code]

\* .map_err(XError::ModbusError)? .map_err(XError::ModbusException)?
MapErr(outcome) ==
  IF outcome.tag = "Err" THEN [kind |-> "ModbusError", err |-> outcome.err]
  ELSE [kind |-> "ModbusException", code |-> outcome.code]

\* ...?; Ok(())
ReturnUnit(outcome) ==
  IF outcome.tag = "Ok" THEN [kind |-> "Ok", value |-> <<>>] ELSE MapErr(outcome)

ReturnAll_reversed(outcome) ==
  IF outcome.tag = "Ok"
  THEN [kind |-> "Ok",
        value |-> [i \in 1 .. Len(outcome.data) |-> outcome.data[Len(outcome.data) + 1 - i]]]
  ELSE MapErr(outcome)

\* ...?; Ok(result)
ReturnAll(outcome) ==
  IF outcome.tag = "Ok" THEN [kind |-> "Ok", value |-> outcome.data] ELSE MapErr(outcome)

\* ...?; Ok(result[0]): indexing an empty Vec panics
ReturnIndex0(outcome) ==
  IF outcome.tag = "Ok"
  THEN IF Len(outcome.data) = 0 THEN [kind |-> "panic"]
       ELSE [kind |-> "Ok", value |-> outcome.data[1]]
  ELSE MapErr(outcome)

ReturnFirstOrFalse_strict(outcome) ==
  IF outcome.tag = "Ok"
  THEN IF Len(outcome.data) = 0 THEN [kind |-> "ModbusException", code |-> "IllegalDataValue"]
       ELSE [kind |-> "Ok", value |-> outcome.data[1]]
  ELSE MapErr(outcome)

\* ...?; Ok(result.first().copied().unwrap_or(false))
ReturnFirstOrFalse(outcome) ==
  IF outcome.tag = "Ok"
  THEN [kind |-> "Ok", value |-> IF Len(outcome.data) = 0 THEN FALSE ELSE outcome.data[1]]
  ELSE MapErr(outcome)

ReturnControlMode_fabricated(outcome) ==
  IF outcome.tag = "Ok" /\ Len(outcome.data) > 0 THEN from_u16(outcome.data[1])
  ELSE [kind |-> "InvalidControlMode"]

\* ...?; ControlMode::from_u16(result[0])
ReturnControlMode(outcome) ==
  IF outcome.tag = "Ok"
  THEN IF Len(outcome.data) = 0 THEN [kind |-> "panic"] ELSE from_u16(outcome.data[1])
  ELSE MapErr(outcome)

(* ------------------------------------------------------------------ *)
(* Inputs                                                              *)
(* ------------------------------------------------------------------ *)

\* the tasks that share one ThreadSafeContext; each owns one facade
Callers == {"t1", "t2"}

Classes == {"AnalogInput", "AnalogOutput", "DigitalIO"}

\* slave addresses given to the facades at construction
MaxUnit == 2
UnitIds == 1 .. MaxUnit

\* the arguments the callers pass: the first and the last channel, the
\* extreme words, one value of each of the other kinds
ChannelInputs == {0, 7}
WordInputs == {0, U16 - 1}
AddressInputs == {255}
BaudInputs == {7}
ParityInputs == {2}
ControlModeInputs == {"RAW"}
DigitalModeInputs == {2}
ActionInputs == {Action_On, Action_Off}
ActionArrayInputs ==
  {[i \in 1 .. 8 |-> IF i % 2 = p THEN Action_On ELSE Action_Off] : p \in {0, 1}}

Op(name, args) == [name |-> name, args |-> args]

CommonOps ==
  {Op("set_uart_parameters", <<b, p>>) : b \in BaudInputs, p \in ParityInputs}
  \cup {Op("set_device_address", <<a>>) : a \in AddressInputs}
  \cup {Op("read_software_version", <<>>)}

AnalogInputOps ==
  {Op("read_input_channel_status", <<ch>>) : ch \in ChannelInputs}
  \cup {Op("read_input_channels", <<>>)}
  \cup {Op("write_control_mode", <<ControlMode_as_u16(m), ch>>) :
          m \in ControlModeInputs, ch \in ChannelInputs}
  \cup {Op("read_control_mode", <<ch>>) : ch \in ChannelInputs}

AnalogOutputOps ==
  {Op("read_output_channel_value", <<ch>>) : ch \in ChannelInputs}
  \cup {Op("write_output_channel_value", <<ch, v>>) : ch \in ChannelInputs, v \in WordInputs}

DigitalIOOps ==
  {Op("write_output_channel", <<ch, a>>) : ch \in ChannelInputs, a \in ActionInputs}
  \cup {Op("open_all_outputs", <<>>), Op("close_all_outputs", <<>>)}
  \cup {Op("write_output_channels", acts) : acts \in ActionArrayInputs}
  \cup {Op("flash_output_on", <<ch, v>>) : ch \in ChannelInputs, v \in WordInputs}
  \cup {Op("flash_output_off", <<ch, v>>) : ch \in ChannelInputs, v \in WordInputs}
  \cup {Op("read_input_channel_status", <<ch>>) : ch \in ChannelInputs}
  \cup {Op("read_input_channels", <<>>)}
  \cup {Op("set_output_control_mode", <<ch, m>>) : ch \in ChannelInputs, m \in DigitalModeInputs}

\* pub async fn set_slave_id of each facade, called on its own
SelectOps == {Op("set_slave_id", <<>>)}

FacadeOps(class) ==
  SelectOps \cup CommonOps \cup
  (CASE class = "AnalogInput" -> AnalogInputOps
     [] class = "AnalogOutput" -> AnalogOutputOps
     [] class = "DigitalIO" -> DigitalIOOps)

\* the request a facade operation hands to the ThreadSafeContext
FacadeRequest(class, o) ==
  LET n == o.name
      a == o.args
  IN CASE class = "DigitalIO" /\ n = "set_uart_parameters" -> set_uart_parameters(a[1], a[2])
       [] class = "DigitalIO" /\ n = "set_device_address" -> set_device_address(a[1])
       [] class = "DigitalIO" /\ n = "read_software_version" -> read_software_version
       [] class = "AnalogInput" /\ n = "set_uart_parameters" ->
            AnalogInput_set_uart_parameters(a[1], a[2])
       [] class = "AnalogInput" /\ n = "set_device_address" ->
            AnalogInput_set_device_address(a[1])
       [] class = "AnalogInput" /\ n = "read_software_version" ->
            AnalogInput_read_software_version
       [] class = "AnalogOutput" /\ n = "set_uart_parameters" ->
            AnalogOutput_set_uart_parameters(a[1], a[2])
       [] class = "AnalogOutput" /\ n = "set_device_address" ->
            AnalogOutput_set_device_address(a[1])
       [] class = "AnalogOutput" /\ n = "read_software_version" ->
            AnalogOutput_read_software_version
       [] class = "AnalogInput" /\ n = "read_input_channel_status" ->
            AnalogInput_read_input_channel_status(a[1])
       [] class = "AnalogInput" /\ n = "read_input_channels" -> AnalogInput_read_input_channels
       [] class = "AnalogInput" /\ n = "write_control_mode" ->
            AnalogInput_write_control_mode(ControlModeName[a[1] + 1], a[2])
       [] class = "AnalogInput" /\ n = "read_control_mode" -> AnalogInput_read_control_mode(a[1])
       [] class = "AnalogOutput" /\ n = "read_output_channel_value" ->
            AnalogOutput_read_output_channel_value(a[1])
       [] class = "AnalogOutput" /\ n = "write_output_channel_value" ->
            AnalogOutput_write_output_channel_value(a[1], a[2])
       [] class = "DigitalIO" /\ n = "write_output_channel" ->
            DigitalIO_write_output_channel(a[1], a[2])
       [] class = "DigitalIO" /\ n = "open_all_outputs" -> DigitalIO_open_all_outputs
       [] class = "DigitalIO" /\ n = "close_all_outputs" -> DigitalIO_close_all_outputs
       [] class = "DigitalIO" /\ n = "write_output_channels" -> DigitalIO_write_output_channels(a)
       [] class = "DigitalIO" /\ n = "flash_output_on" -> DigitalIO_flash_output_on(a[1], a[2])
       [] class = "DigitalIO" /\ n = "flash_output_off" -> DigitalIO_flash_output_off(a[1], a[2])
       [] class = "DigitalIO" /\ n = "read_input_channel_status" ->
            DigitalIO_read_input_channel_status(a[1])
       [] class = "DigitalIO" /\ n = "read_input_channels" -> DigitalIO_read_input_channels
       [] class = "DigitalIO" /\ n = "set_output_control_mode" ->
            DigitalIO_set_output_control_mode(a[1], a[2])

\* the value a facade operation returns for the collaborator's outcome
FacadeReturn(class, o, outcome) ==
  LET n == o.name
  IN CASE n \in {"read_software_version", "read_output_channel_value"} -> ReturnIndex0(outcome)
       [] class = "AnalogInput" /\ n = "read_input_channel_status" -> ReturnIndex0(outcome)
       [] class = "DigitalIO" /\ n = "read_input_channel_status" -> ReturnFirstOrFalse(outcome)
       [] n = "read_input_channels" -> ReturnAll(outcome)
       [] n = "read_control_mode" -> ReturnControlMode(outcome)
       [] OTHER -> ReturnUnit(outcome)

\* operations called on the ThreadSafeContext itself, without a facade:
\* set_slave and the primitives no facade uses (the others are reached
\* through the facades)
ContextOps ==
  {Op("set_slave", <<s>>) : s \in UnitIds}
  \cup {Op(n, <<>>) : n \in {"call", "disconnect", "read_coils",
                             "read_write_multiple_registers",
                             "write_multiple_registers", "masked_write_register"}}

ContextRequest(o) ==
  LET n == o.name
  IN CASE n = "call" -> call(read_coils(0, 1))
       [] n = "disconnect" -> disconnect
       [] n = "read_coils" -> read_coils(0, 1)
       [] n = "read_write_multiple_registers" -> read_write_multiple_registers(0, 1, 0, <<0>>)
       [] n = "write_multiple_registers" -> write_multiple_registers(0, <<0>>)
       [] n = "masked_write_register" -> masked_write_register(0, 0, 0)

\* what the collaborator may yield
TransportErrors == {"TimedOut", "BrokenPipe"}
ExceptionCodes == {"IllegalFunction", "IllegalDataAddress"}
PayloadSeeds == {4, 5, U16 - 1}

RegisterPayloads(cnt) ==
  {<<>>} \cup {[i \in 1 .. cnt |-> (s + i - 1) % U16] : s \in PayloadSeeds}
BitPayloads(cnt) ==
  {<<>>} \cup {[i \in 1 .. cnt |-> i % 2 = p] : p \in {0, 1}}

Payloads(req) ==
  CASE req.fn \in {"read_holding_registers", "read_input_registers",
                   "read_write_multiple_registers"} -> RegisterPayloads(req.cnt)
    [] req.fn \in {"read_coils", "read_discrete_inputs"} -> BitPayloads(req.cnt)
    [] OTHER -> {<<>>}

Outcomes(req) ==
  {Err(e) : e \in TransportErrors}
  \cup (IF req.fn = "disconnect" THEN {} ELSE {Exception(x) : x \in ExceptionCodes})
  \cup {Ok(d) : d \in Payloads(req)}

(* ------------------------------------------------------------------ *)
(* State                                                               *)
(* ------------------------------------------------------------------ *)

VARIABLES
  unit_id,    \* unit_id[c]: the slave address of c's facade
  class,      \* class[c]: the device class of c's facade
  lock,       \* ThreadSafeContext.inner, the Mutex: its holder, or Free
  slave,      \* the Context's currently selected slave
  pc,         \* pc[c]: where c's current operation is suspended
  op,         \* op[c]: the operation c is in, with its arguments
  request,    \* request[c]: the transaction c's operation started on the Context
  outcome,    \* outcome[c]: what the collaborator yielded for it
  selected,   \* selected[c]: the slaves c's operation has selected so far
  sent,       \* sent[c]: the transactions c's operation has started so far
  interleaved, \* interleaved[c]: another caller's select or transaction went on the
              \* link after c's select and before c's transaction
  applied,    \* the conversion or request formation last applied, with its arguments
  result      \* what it produced

vars ==
  <<unit_id, class, lock, slave, pc, op, request, outcome, selected, sent, interleaved,
    applied, result>>

Free == "free"
NoOp == [via |-> "none", name |-> "none", args |-> <<>>]
NoRequest == [fn |-> "none", addr |-> 0, cnt |-> 0, data |-> <<>>]
NoOutcome == [tag |-> "None"]
NotApplied == [fn |-> "none", args |-> <<>>]
NoResult == [kind |-> "none"]

Init ==
  /\ unit_id \in [Callers -> UnitIds]
  /\ class \in [Callers -> Classes]
  /\ lock = Free
  /\ slave \in UnitIds
  /\ pc = [c \in Callers |-> "idle"]
  /\ op = [c \in Callers |-> NoOp]
  /\ request = [c \in Callers |-> NoRequest]
  /\ outcome = [c \in Callers |-> NoOutcome]
  /\ selected = [c \in Callers |-> <<>>]
  /\ sent = [c \in Callers |-> 0]
  /\ interleaved = [c \in Callers |-> FALSE]
  /\ applied = NotApplied
  /\ result = NoResult

\* c puts an event on the link: every other facade operation that has
\* selected its slave and not yet started its transaction sees it in
\* between; c's own record starts afresh
Observe(c) ==
  [d \in Callers |->
     IF d = c THEN FALSE
     ELSE interleaved[d] \/ (pc[d] = "lock" /\ op[d].via = "facade")]

\* a caller that is in no operation
Resting == {"idle", "abandoned"}

\* a new operation starts with nothing selected or sent
Start(c, o, at) ==
  /\ pc[c] \in Resting
  /\ pc' = [pc EXCEPT ![c] = at]
  /\ op' = [op EXCEPT ![c] = o]
  /\ selected' = [selected EXCEPT ![c] = <<>>]
  /\ sent' = [sent EXCEPT ![c] = 0]
  /\ UNCHANGED <<applied, result, unit_id, class, lock, slave, request, outcome, interleaved>>

FacadeEntry_unselected(o) ==
  IF o.name = "read_software_version" THEN "lock" ELSE "set_slave_lock"

\* where a facade operation first suspends: self.set_slave_id().await
FacadeEntry(o) == "set_slave_lock"

\* c calls an operation of its facade
CallFacade(c) ==
  \E o \in FacadeOps(class[c]) :
    Start(c, [via |-> "facade", name |-> o.name, args |-> o.args], FacadeEntry(o))

\* c calls an operation of the ThreadSafeContext directly
CallContext(c) ==
  \E o \in ContextOps :
    Start(c, [via |-> "context", name |-> o.name, args |-> o.args],
          IF o.name = "set_slave" THEN "set_slave_lock" ELSE "lock")

MayLock_unguarded(c) == TRUE

\* self.inner.lock().await resolves only while no guard is alive
MayLock(c) == lock = Free

Unlock_leaked(c) == IF pc[c] = "in_flight" THEN lock ELSE IF lock = c THEN Free ELSE lock

\* the MutexGuard `ctx` is dropped: at the end of the method, or with the
\* future when the caller abandons it
Unlock(c) == IF lock = c THEN Free ELSE lock

SlaveArg_stale(c) == slave

\* the slave an operation selects: tokio_modbus::Slave(self.unit_id) in a
\* facade's set_slave_id, the argument in a direct set_slave
SlaveArg(c) == IF op[c].via = "facade" THEN unit_id[c] ELSE op[c].args[1]

\* the request an operation starts on the Context
RequestOf(c) ==
  IF op[c].via = "facade" THEN FacadeRequest(class[c], op[c]) ELSE ContextRequest(op[c])

\* the value an operation returns: a facade decodes the outcome, the
\* ThreadSafeContext hands it back as it is
ReturnOf(c, out) ==
  IF op[c].via = "facade" THEN FacadeReturn(class[c], op[c], out)
  ELSE IF out.tag = "Ok" THEN [kind |-> "Ok", value |-> out.data]
  ELSE IF out.tag = "Err" THEN [kind |-> "Err", err |-> out.err]
  ELSE [kind |-> "Exception", code |-> out.code]

\* the value c's operation is returning, once the primitive has yielded
Returned(c) == ReturnOf(c, outcome[c])

AfterOutcome_retry(c) ==
  IF outcome[c].tag = "Err" /\ sent[c] < 2 THEN "lock"
  ELSE IF Returned(c).kind = "panic" THEN "panicked" ELSE "idle"

\* where the operation goes once the primitive has yielded: it returns
\* (or unwinds); no path leads back to the link
AfterOutcome(c) == IF Returned(c).kind = "panic" THEN "panicked" ELSE "idle"

unit_id_after_readdressed(c) ==
  IF op[c].via = "facade" /\ op[c].name = "set_device_address" /\ outcome[c].tag = "Ok"
  THEN [unit_id EXCEPT ![c] = op[c].args[1]]
  ELSE unit_id

\* the facades' unit_id when c's operation returns: no method assigns
\* self.unit_id, set_device_address included
unit_id_after(c) == unit_id

slave_after_reset(c) == IF outcome[c].tag = "Err" THEN 1 ELSE slave

\* the Context's selected slave when a primitive returns: the methods
\* other than set_slave never call ctx.set_slave, whatever the outcome
slave_after(c) == slave

\* a caller whose operation is over
Over == {"idle", "abandoned", "panicked"}

\* the operation is over: its state is gone
Finish(c, at) ==
  /\ pc' = [pc EXCEPT ![c] = at]
  /\ op' = [op EXCEPT ![c] = NoOp]
  /\ request' = [request EXCEPT ![c] = NoRequest]
  /\ outcome' = [outcome EXCEPT ![c] = NoOutcome]

\* ThreadSafeContext::set_slave, up to its await: the lock is acquired
set_slave_lock(c) ==
  /\ pc[c] = "set_slave_lock"
  /\ MayLock(c)
  /\ lock' = c
  /\ pc' = [pc EXCEPT ![c] = "set_slave_locked"]
  /\ UNCHANGED <<applied, result, unit_id, class, slave, op, request, outcome, selected, sent, interleaved>>

\* ThreadSafeContext::set_slave, after its await: ctx.set_slave(slave), the
\* guard is dropped; a facade operation goes on to its transaction, a
\* set_slave_id called on its own and a direct set_slave return ()
set_slave(c) ==
  /\ pc[c] = "set_slave_locked"
  /\ slave' = SlaveArg(c)
  /\ interleaved' = Observe(c)
  /\ lock' = Unlock(c)
  /\ IF op[c].via = "facade" /\ op[c].name # "set_slave_id"
     THEN /\ pc' = [pc EXCEPT ![c] = "lock"]
          /\ selected' = [selected EXCEPT ![c] = Append(@, SlaveArg(c))]
          /\ UNCHANGED <<op, request, outcome>>
     ELSE /\ Finish(c, "idle")
          /\ selected' = [selected EXCEPT ![c] =
                            IF op[c].via = "facade" THEN Append(@, SlaveArg(c)) ELSE @]
  /\ UNCHANGED <<applied, result, unit_id, class, sent>>

\* a primitive of ThreadSafeContext, up to its second await: the lock is
\* acquired and the Context's primitive is started
primitive_lock(c) ==
  /\ pc[c] = "lock"
  /\ MayLock(c)
  /\ lock' = c
  /\ request' = [request EXCEPT ![c] = RequestOf(c)]
  /\ sent' = [sent EXCEPT ![c] = @ + 1]
  /\ interleaved' = Observe(c)
  /\ pc' = [pc EXCEPT ![c] = "in_flight"]
  /\ UNCHANGED <<applied, result, unit_id, class, slave, op, outcome, selected>>

\* the Context's primitive yields its outcome to the method, which still
\* holds the guard
primitive_yield(c) ==
  /\ pc[c] = "in_flight"
  /\ \E out \in Outcomes(request[c]) : outcome' = [outcome EXCEPT ![c] = out]
  /\ pc' = [pc EXCEPT ![c] = "yielded"]
  /\ UNCHANGED <<applied, result, unit_id, class, lock, slave, op, request, selected, sent, interleaved>>

\* the method returns the outcome and drops the guard; a facade maps the
\* outcome to its result and returns it
primitive_return(c) ==
  /\ pc[c] = "yielded"
  /\ lock' = Unlock(c)
  /\ IF AfterOutcome(c) \in Over
     THEN /\ Finish(c, AfterOutcome(c))
          /\ selected' = [selected EXCEPT ![c] = <<>>]
          /\ sent' = [sent EXCEPT ![c] = 0]
     ELSE /\ pc' = [pc EXCEPT ![c] = AfterOutcome(c)]
          /\ UNCHANGED <<op, request, outcome, selected, sent>>
  /\ unit_id' = unit_id_after(c)
  /\ slave' = slave_after(c)
  /\ UNCHANGED <<applied, result, class, interleaved>>

\* the caller drops the operation's future at one of its await points
Abandon(c) ==
  /\ pc[c] \in {"set_slave_lock", "lock", "in_flight"}
  /\ lock' = Unlock(c)
  /\ Finish(c, "abandoned")
  /\ selected' = [selected EXCEPT ![c] = <<>>]
  /\ interleaved' = [interleaved EXCEPT ![c] = FALSE]
  /\ UNCHANGED <<applied, result, unit_id, class, slave, sent>>

Next ==
  \E c \in Callers :
    \/ CallFacade(c)
    \/ CallContext(c)
    \/ set_slave_lock(c)
    \/ set_slave(c)
    \/ primitive_lock(c)
    \/ primitive_yield(c)
    \/ primitive_return(c)
    \/ Abandon(c)

Spec == Init /\ [][Next]_vars

\* the callers use the context only through their facades, as in
\* examples/test.rs
NextFacades ==
  \E c \in Callers :
    \/ CallFacade(c)
    \/ set_slave_lock(c)
    \/ set_slave(c)
    \/ primitive_lock(c)
    \/ primitive_yield(c)
    \/ primitive_return(c)
    \/ Abandon(c)

SpecFacades == Init /\ [][NextFacades]_vars

\* facade operations that are driven to completion: no caller drops a
\* future
NextLive ==
  \E c \in Callers :
    \/ CallFacade(c)
    \/ set_slave_lock(c)
    \/ set_slave(c)
    \/ primitive_lock(c)
    \/ primitive_yield(c)
    \/ primitive_return(c)

\* tokio's Mutex hands the lock to its waiters in FIFO order, so a waiter
\* is not passed over for ever; a task that can run is polled; the
\* transport answers every transaction
Fairness ==
  \A c \in Callers :
    /\ SF_vars(set_slave_lock(c))
    /\ WF_vars(set_slave(c))
    /\ SF_vars(primitive_lock(c))
    /\ WF_vars(primitive_yield(c))
    /\ WF_vars(primitive_return(c))

SpecLive == Init /\ [][NextLive]_vars /\ Fairness

(* ------------------------------------------------------------------ *)
(* The conversions, and the operations over all their arguments        *)
(* ------------------------------------------------------------------ *)

\* every value of a u8 and of a u16
U8Values == 0 .. U8 - 1
U16Values == 0 .. U16 - 1

AnalogClasses == {"AnalogInput", "AnalogOutput"}

\* the channel-indexed operations of a class on one channel, with every
\* control mode, action and behaviour mode and the extreme words
ChannelOps(cls, ch) ==
  CASE cls = "AnalogInput" ->
         {Op("read_input_channel_status", <<ch>>), Op("read_control_mode", <<ch>>)}
         \cup {Op("write_control_mode", <<k, ch>>) : k \in 0 .. 4}
    [] cls = "AnalogOutput" ->
         {Op("read_output_channel_value", <<ch>>)}
         \cup {Op("write_output_channel_value", <<ch, v>>) : v \in WordInputs}
    [] cls = "DigitalIO" ->
         {Op("write_output_channel", <<ch, a>>) : a \in Action}
         \cup {Op("flash_output_on", <<ch, v>>) : v \in WordInputs}
         \cup {Op("flash_output_off", <<ch, v>>) : v \in WordInputs}
         \cup {Op("read_input_channel_status", <<ch>>)}
         \cup {Op("set_output_control_mode", <<ch, m>>) : m \in DigitalIO_ControlModes}

\* the operations of trait WaveshareModbus with every baud rate and parity
AllCommonOps ==
  {Op("set_uart_parameters", <<b, p>>) : b \in Baudrates, p \in Parity}
  \cup {Op("set_device_address", <<a>>) : a \in {0, 1, U8 - 1}}
  \cup {Op("read_software_version", <<>>)}

\* the caller that applies the conversions and calls the operations with
\* all their arguments; the other callers compete with it for the link
FirstCaller == "t1"

\* no caller is in an operation, none has dropped one
AllIdle == \A c \in Callers : pc[c] = "idle"

\* a conversion is a synchronous call: it touches neither the lock nor
\* the link
Applied(fn, args, value) ==
  /\ applied = NotApplied
  /\ AllIdle
  /\ applied' = [fn |-> fn, args |-> args]
  /\ result' = value
  /\ UNCHANGED <<unit_id, class, lock, slave, pc, op, request, outcome, selected, sent,
                 interleaved>>

\* Channel::try_from on a channel index
ApplyChannelTryFrom ==
  /\ applied = NotApplied
  /\ \E index \in U8Values : Applied("Channel::try_from", <<index>>, Channel_try_from(index))

\* ControlMode::from_u16 of the caller's analog class on a register value
ApplyFromU16 ==
  /\ applied = NotApplied
  /\ class[FirstCaller] \in AnalogClasses
  /\ \E value \in U16Values :
       Applied("from_u16", <<class[FirstCaller], value>>,
               IF class[FirstCaller] = "AnalogInput" THEN from_u16(value)
               ELSE AnalogOutput_from_u16(value))

\* mode as u16, then ControlMode::from_u16 on the code
ApplyControlModeRoundTrip ==
  /\ applied = NotApplied
  /\ class[FirstCaller] \in AnalogClasses
  /\ \E k \in 1 .. 5 :
       IF class[FirstCaller] = "AnalogInput"
       THEN LET mode == ControlModeName[k]
            IN Applied("as_u16_from_u16", <<class[FirstCaller], mode>>,
                       [code |-> ControlMode_as_u16(mode),
                        decoded |-> from_u16(ControlMode_as_u16(mode))])
       ELSE LET mode == AnalogOutput_ControlModeName[k]
            IN Applied("as_u16_from_u16", <<class[FirstCaller], mode>>,
                       [code |-> AnalogOutput_ControlMode_as_u16(mode),
                        decoded |-> AnalogOutput_from_u16(AnalogOutput_ControlMode_as_u16(mode))])

\* IoBank::from(data), then into() and as_action_array() on the bank
ApplyIoBank ==
  /\ applied = NotApplied
  /\ class[FirstCaller] = "DigitalIO"
  /\ \E data \in U8Values :
       Applied("IoBank", <<data>>,
               [bank |-> IoBank_from(data), byte |-> IoBank_into(IoBank_from(data)),
                actions |-> as_action_array(IoBank_from(data))])

\* with the Channel that Channel::try_from yielded the caller calls a
\* channel-indexed operation of its facade; the operation then runs step
\* by step like any other
CallChannelOperation ==
  /\ applied.fn = "Channel::try_from"
  /\ result.kind = "Ok"
  /\ \E o \in ChannelOps(class[FirstCaller], result.value) :
       Start(FirstCaller, [via |-> "facade", name |-> o.name, args |-> o.args], FacadeEntry(o))

\* the caller calls an operation of trait WaveshareModbus
CallCommonOperation ==
  /\ applied = NotApplied
  /\ \E o \in AllCommonOps :
       Start(FirstCaller, [via |-> "facade", name |-> o.name, args |-> o.args], FacadeEntry(o))

\* while that operation runs another caller selects its own slave
CallSetSlaveId ==
  /\ pc[FirstCaller] \notin Resting \cup {"panicked"}
  /\ \E c \in Callers \ {FirstCaller} : \E o \in SelectOps :
       Start(c, [via |-> "facade", name |-> o.name, args |-> o.args], FacadeEntry(o))

ConversionsNext ==
  \/ ApplyChannelTryFrom
  \/ ApplyFromU16
  \/ ApplyControlModeRoundTrip
  \/ ApplyIoBank
  \/ CallChannelOperation
  \/ CallCommonOperation
  \/ CallSetSlaveId
  \/ \E c \in Callers :
       \/ set_slave_lock(c)
       \/ set_slave(c)
       \/ primitive_lock(c)
       \/ primitive_yield(c)
       \/ primitive_return(c)
       \/ Abandon(c)

\* the first caller's facade is of any class, at address 1; the others
\* are at the last address
ConversionsInit ==
  /\ unit_id = [c \in Callers |-> IF c = FirstCaller THEN 1 ELSE MaxUnit]
  /\ class \in {[c \in Callers |-> IF c = FirstCaller THEN cls ELSE "DigitalIO"] :
                  cls \in Classes}
  /\ lock = Free
  /\ slave = 1
  /\ pc = [c \in Callers |-> "idle"]
  /\ op = [c \in Callers |-> NoOp]
  /\ request = [c \in Callers |-> NoRequest]
  /\ outcome = [c \in Callers |-> NoOutcome]
  /\ selected = [c \in Callers |-> <<>>]
  /\ sent = [c \in Callers |-> 0]
  /\ interleaved = [c \in Callers |-> FALSE]
  /\ applied = NotApplied
  /\ result = NoResult

SpecConversions == ConversionsInit /\ [][ConversionsNext]_vars

TypeOK ==
  /\ lock \in Callers \cup {Free}
  /\ slave \in UnitIds
  /\ \A c \in Callers :
       /\ pc[c] \in Resting \cup {"set_slave_lock", "set_slave_locked", "lock", "in_flight",
                                  "yielded", "panicked"}
       /\ sent[c] \in 0 .. 1
       /\ Len(selected[c]) <= 1

(* ------------------------------------------------------------------ *)
(* Properties                                                          *)
(* ------------------------------------------------------------------ *)

Facade(c) == op[c].via = "facade"

\* the positions in which an operation uses the Context
Holding == {"set_slave_locked", "in_flight", "yielded"}

\* C1: from a facade's slave-select to the completion of its transaction
\* the link's selected slave is the facade's own unit_id; in particular it
\* is while the transaction is on the link.
C1_SelectedSlaveIsOwn ==
  \A c \in Callers :
    (Facade(c) /\ pc[c] \in {"lock", "in_flight", "yielded"}) => slave = unit_id[c]

\* C2: on the link every slave-select of a facade is immediately followed
\* by that facade's transaction: no other caller's select or transaction
\* comes in between.
C2_SelectThenOwnTransaction == \A c \in Callers : ~interleaved[c]

\* C3: at most one operation uses the connection at any instant, and an
\* operation that uses it holds the lock, from before its primitive starts
\* until the primitive's result is returned.
C3_ExclusiveLink ==
  /\ \A c \in Callers : pc[c] \in Holding => lock = c
  /\ Cardinality({c \in Callers : pc[c] \in Holding}) <= 1

C3_Witness ==
  \E c, d \in Callers :
    /\ pc[c] = "in_flight" /\ lock = c
    /\ pc[d] \in {"set_slave_lock", "lock"}

\* C4: an operation that has ended (returned, failed, panicked) or was
\* abandoned holds no exclusive access, and neither does one that only
\* waits for it: the lock is held only by an operation that is using the
\* Context, so a waiting caller can acquire it once that operation is over.
C4_NoLockLeak ==
  /\ \A c \in Callers : lock = c => pc[c] \in Holding
  /\ \A c \in Callers :
       (lock = Free /\ pc[c] \in {"set_slave_lock", "lock"}) =>
         ENABLED (set_slave_lock(c) \/ primitive_lock(c))

C4_Witness ==
  \E c, d \in Callers :
    /\ pc[c] = "abandoned" /\ sent[c] = 1
    /\ pc[d] = "in_flight" /\ lock = d

\* C5: a facade operation whose transaction is on the link has, within
\* the same operation and before it, selected its own unit_id.
C5_SelectBeforeTransaction ==
  \A c \in Callers :
    (Facade(c) /\ (sent[c] > 0 \/ pc[c] \in {"lock", "in_flight", "yielded"}))
      => selected[c] = <<unit_id[c]>>

C5_Witness ==
  \E c \in Callers :
    /\ Facade(c) /\ pc[c] = "in_flight" /\ sent[c] = 1
    /\ selected[c] = <<unit_id[c]>>

\* C6: an operation starts at most one transaction; when the primitive has
\* yielded, whatever the outcome, exactly one was started (and a facade
\* made exactly one select, a direct call none).
C6_OneTransaction ==
  \A c \in Callers :
    /\ sent[c] <= 1
    /\ pc[c] \in {"in_flight", "yielded"} =>
         /\ sent[c] = 1
         /\ Len(selected[c]) = (IF Facade(c) THEN 1 ELSE 0)

C6_Witness ==
  \E c, d \in Callers :
    /\ Facade(c) /\ pc[c] = "yielded" /\ outcome[c].tag = "Err" /\ sent[c] = 1
    /\ ~Facade(d) /\ pc[d] = "lock"

\* C7: a facade returns ModbusError with the collaborator's error exactly
\* when the collaborator yielded a transport error, and ModbusException
\* with the device's code exactly when it yielded an exception response;
\* InvalidControlMode is returned only for a successful response.
C7_ErrorKindsDistinct ==
  \A c \in Callers :
    (Facade(c) /\ pc[c] = "yielded") =>
      LET out == outcome[c]
          res == Returned(c)
      IN /\ out.tag = "Err" <=> res.kind = "ModbusError"
         /\ out.tag = "Exception" <=> res.kind = "ModbusException"
         /\ res.kind = "ModbusError" => res.err = out.err
         /\ res.kind = "ModbusException" => res.code = out.code
         /\ res.kind = "InvalidControlMode" => out.tag = "Ok"

C7_Witness ==
  \E c \in Callers :
    /\ Facade(c) /\ pc[c] = "yielded" /\ op[c].name = "read_control_mode"
    /\ outcome[c] = Exception("IllegalDataAddress")
    /\ Returned(c) = [kind |-> "ModbusException", code |-> "IllegalDataAddress"]
    /\ ReturnOf(c, Err("BrokenPipe")) = [kind |-> "ModbusError", err |-> "BrokenPipe"]

\* C8: whatever the collaborator yields, a facade operation returns a
\* success value, a transport error, a protocol exception or a decode
\* error, and no success value when the collaborator reported a failure.
C8_AlwaysReturnsAResult ==
  \A c \in Callers :
    (Facade(c) /\ pc[c] = "yielded") =>
      /\ Returned(c).kind \in {"Ok", "ModbusError", "ModbusException", "InvalidControlMode"}
      /\ outcome[c].tag # "Ok" => Returned(c).kind # "Ok"

\* the 8 coils an array of 8 actions is written as
CoilsFor(actions) == [i \in 1 .. 8 |-> actions[i] = Action_On]

\* every array of 8 actions
ActionArrays == [1 .. 8 -> {Action_On, Action_Off}]

C9_EveryArray ==
  /\ \A actions \in ActionArrays :
       DigitalIO_write_output_channels(actions) =
         [fn |-> "write_multiple_coils", addr |-> 0, cnt |-> 8, data |-> CoilsFor(actions)]
  /\ DigitalIO_write_output_channels(
       <<Action_On, Action_Off, Action_On, Action_Off,
         Action_On, Action_Off, Action_On, Action_Off>>).data
       = <<TRUE, FALSE, TRUE, FALSE, TRUE, FALSE, TRUE, FALSE>>

\* C9: DigitalIO::write_output_channels starts exactly one transaction, a
\* write-multiple-coils at OutputChannel (0x0000) of 8 coils, the i-th true
\* exactly when actions[i] is On; so it does for every array of 8 actions.
C9_OneMultiCoilWrite ==
  /\ C9_EveryArray
  /\ \A c \in Callers :
       (/\ Facade(c) /\ class[c] = "DigitalIO" /\ op[c].name = "write_output_channels"
        /\ pc[c] \in {"in_flight", "yielded"}) =>
         /\ sent[c] = 1
         /\ request[c] = [fn |-> "write_multiple_coils", addr |-> 0, cnt |-> 8,
                          data |-> CoilsFor(op[c].args)]

C9_Witness ==
  \E c \in Callers :
    /\ Facade(c) /\ class[c] = "DigitalIO" /\ op[c].name = "write_output_channels"
    /\ op[c].args = <<Action_On, Action_Off, Action_On, Action_Off,
                      Action_On, Action_Off, Action_On, Action_Off>>
    /\ pc[c] = "in_flight"
    /\ request[c].data = <<TRUE, FALSE, TRUE, FALSE, TRUE, FALSE, TRUE, FALSE>>

\* C10: AnalogInput::read_input_channels starts exactly one transaction, a
\* read-input-registers at InputChannels (0x0000) for quantity 8, and on
\* success returns the codes the collaborator yielded, in their order.
C10_ReadInputChannels ==
  \A c \in Callers :
    (/\ Facade(c) /\ class[c] = "AnalogInput" /\ op[c].name = "read_input_channels"
     /\ pc[c] \in {"in_flight", "yielded"}) =>
      /\ sent[c] = 1
      /\ request[c] = [fn |-> "read_input_registers", addr |-> 0, cnt |-> 8, data |-> <<>>]
      /\ (pc[c] = "yielded" /\ outcome[c].tag = "Ok") =>
           /\ Returned(c).kind = "Ok"
           /\ Len(Returned(c).value) = Len(outcome[c].data)
           /\ \A i \in 1 .. Len(outcome[c].data) : Returned(c).value[i] = outcome[c].data[i]

C10_Witness ==
  \E c \in Callers :
    /\ Facade(c) /\ class[c] = "AnalogInput" /\ op[c].name = "read_input_channels"
    /\ pc[c] = "yielded"
    /\ outcome[c] = Ok(<<65535, 0, 1, 2, 3, 4, 5, 6>>)
    /\ Returned(c) = [kind |-> "Ok", value |-> <<65535, 0, 1, 2, 3, 4, 5, 6>>]

\* the base address of each channel-indexed operation
BaseOf(cls, name) ==
  CASE cls = "AnalogInput" /\ name = "read_input_channel_status" -> 0
    [] cls = "AnalogInput" /\ name \in {"write_control_mode", "read_control_mode"} -> 4096
    [] cls = "AnalogOutput" -> 0
    [] cls = "DigitalIO" /\ name = "write_output_channel" -> 0
    [] cls = "DigitalIO" /\ name = "flash_output_on" -> 512
    [] cls = "DigitalIO" /\ name = "flash_output_off" -> 1024
    [] cls = "DigitalIO" /\ name = "read_input_channel_status" -> 0
    [] cls = "DigitalIO" /\ name = "set_output_control_mode" -> 4096

\* the operations that take a Channel, and the Channel each was called with
ChannelOpNames ==
  {"read_input_channel_status", "read_control_mode", "write_control_mode",
   "read_output_channel_value", "write_output_channel_value", "write_output_channel",
   "flash_output_on", "flash_output_off", "set_output_control_mode"}

ChannelArg(o) == IF o.name = "write_control_mode" THEN o.args[2] ELSE o.args[1]

\* the caller's transaction is out: formed, sent, perhaps answered
Out(c) == Facade(c) /\ pc[c] \in {"in_flight", "yielded"}

\* C11: a channel index 0..7 gives every channel-indexed operation of the
\* three classes a transaction at base + index; any other index is
\* rejected by Channel::try_from and no transaction is started for it.
C11_AddressIsBasePlusChannel ==
  /\ applied.fn = "Channel::try_from" =>
       LET index == applied.args[1]
       IN IF index \in 0 .. 7
          THEN /\ result = [kind |-> "Ok", value |-> index]
               /\ \A c \in Callers :
                    (Out(c) /\ op[c].name \in ChannelOpNames) =>
                      /\ ChannelArg(op[c]) = index
                      /\ request[c].addr = BaseOf(class[c], op[c].name) + index
          ELSE /\ result = [kind |-> "Err", err |-> "Invalid Channel"]
               /\ \A c \in Callers : pc[c] = "idle" /\ op[c] = NoOp /\ sent[c] = 0
  /\ \A c \in Callers :
       (op[c].name \in ChannelOpNames /\ Facade(c)) =>
         (applied.fn = "Channel::try_from" /\ applied.args[1] \in 0 .. 7)

C11_Witness ==
  /\ applied = [fn |-> "Channel::try_from", args |-> <<7>>]
  /\ class[FirstCaller] = "DigitalIO"
  /\ pc[FirstCaller] = "in_flight"
  /\ op[FirstCaller].name = "flash_output_off"
  /\ request[FirstCaller].addr = 1031
  /\ Channel_try_from(8) = [kind |-> "Err", err |-> "Invalid Channel"]

\* C12: for the ControlMode of both analog classes, from_u16(mode as u16)
\* is the mode itself for each of the codes 0x0000..0x0004, and from_u16
\* of any other 16-bit value is InvalidControlMode, never a mode.
C12_ControlModeRoundTrip ==
  /\ applied.fn = "as_u16_from_u16" =>
       /\ result.code \in 0 .. 4
       /\ result.decoded = [kind |-> "Ok", value |-> applied.args[2]]
  /\ applied.fn = "from_u16" =>
       IF applied.args[2] \in 0 .. 4
       THEN /\ result.kind = "Ok"
            /\ result.value = <<"V0V10", "V2V10", "C0C20", "C4C20", "RAW">>[applied.args[2] + 1]
       ELSE result = [kind |-> "InvalidControlMode"]

C12_Witness ==
  /\ applied = [fn |-> "from_u16", args |-> <<"AnalogInput", 5>>]
  /\ result = [kind |-> "InvalidControlMode"]

\* C13: every byte 0..255 converted to an IoBank (From<u8>) and back
\* (Into<u8>) is the original byte.
C13_IoBankRoundTrip ==
  applied.fn = "IoBank" =>
    /\ result.byte = applied.args[1]
    /\ result.byte = IoBank_into(result.bank)

C13_Witness ==
  /\ applied = [fn |-> "IoBank", args |-> <<165>>]
  /\ result.bank = <<TRUE, FALSE, TRUE, FALSE, FALSE, TRUE, FALSE, TRUE>>
  /\ result.byte = 165

\* C14: an Action has one of the two codes 0xFF00 (On) and 0x0000 (Off),
\* and DigitalIO::write_output_channel writes one coil at OutputChannel +
\* channel, true exactly when the action is On and false exactly when it
\* is Off.
C14_ActionCoil ==
  /\ Action = {65280, 0}
  /\ Action_On = 65280 /\ Action_Off = 0
  /\ \A c \in Callers :
       (Out(c) /\ class[c] = "DigitalIO" /\ op[c].name = "write_output_channel") =>
         LET action == op[c].args[2]
         IN /\ action \in {65280, 0}
            /\ sent[c] = 1
            /\ request[c].fn = "write_single_coil"
            /\ request[c].addr = 0 + op[c].args[1]
            /\ request[c].data = <<action = 65280>>
            /\ request[c].data = <<action # 0>>

C14_Witness ==
  /\ class[FirstCaller] = "DigitalIO" /\ pc[FirstCaller] = "yielded"
  /\ op[FirstCaller] = [via |-> "facade", name |-> "write_output_channel", args |-> <<7, 0>>]
  /\ request[FirstCaller] = [fn |-> "write_single_coil", addr |-> 7, cnt |-> 1,
                             data |-> <<FALSE>>]
  /\ outcome[FirstCaller].tag = "Ok"

\* C15: for every Parity and Baudrates value set_uart_parameters writes to
\* register 0x2000 the word (parity << 8) | baud: its high byte is the
\* parity code, its low byte the baud code, and no two pairs give the same
\* word.
C15_UartWord ==
  \A c \in Callers :
    (Out(c) /\ op[c].name = "set_uart_parameters") =>
      LET baud == op[c].args[1]
          parity == op[c].args[2]
          word == request[c].data[1]
      IN /\ request[c].fn = "write_single_register"
         /\ request[c].addr = 8192
         /\ Len(request[c].data) = 1
         /\ word = parity * 256 + baud
         /\ word \div 256 = parity
         /\ word % 256 = baud
         /\ \A b \in Baudrates, q \in Parity :
              UartValue(b, q) = word => (b = baud /\ q = parity)

C15_Witness ==
  /\ class[FirstCaller] = "AnalogOutput" /\ pc[FirstCaller] = "in_flight"
  /\ op[FirstCaller] = [via |-> "facade", name |-> "set_uart_parameters", args |-> <<7, 2>>]
  /\ request[FirstCaller] = [fn |-> "write_single_register", addr |-> 8192, cnt |-> 1,
                             data |-> <<519>>]

\* the transaction the common operations are specified to make
CommonRequest(o) ==
  CASE o.name = "set_uart_parameters" ->
         [fn |-> "write_single_register", addr |-> 8192, cnt |-> 1,
          data |-> <<o.args[2] * 256 + o.args[1]>>]
    [] o.name = "set_device_address" ->
         [fn |-> "write_single_register", addr |-> 16384, cnt |-> 1, data |-> <<o.args[1]>>]
    [] o.name = "read_software_version" ->
         [fn |-> "read_holding_registers", addr |-> 32768, cnt |-> 1, data |-> <<>>]

\* C16: for the same arguments and the same collaborator outcome,
\* set_uart_parameters, set_device_address and read_software_version make
\* the same transaction (function, address 0x2000 / 0x4000 / 0x8000,
\* quantity, payload) and end the same way in AnalogInput, AnalogOutput
\* and DigitalIO.
C16_CommonOperationsAgree ==
  \A c \in Callers :
    (Out(c) /\ op[c].name \in {"set_uart_parameters", "set_device_address",
                               "read_software_version"}) =>
      LET o == Op(op[c].name, op[c].args)
      IN /\ sent[c] = 1
         /\ request[c] = CommonRequest(o)
         /\ \A cls \in Classes : FacadeRequest(cls, o) = request[c]
         /\ pc[c] = "yielded" =>
              \A cls \in Classes : FacadeReturn(cls, o, outcome[c]) = Returned(c)

C16_Witness ==
  /\ class[FirstCaller] = "AnalogOutput" /\ pc[FirstCaller] = "yielded"
  /\ op[FirstCaller] = [via |-> "facade", name |-> "set_device_address", args |-> <<255>>]
  /\ outcome[FirstCaller] = Exception("IllegalDataAddress")
  /\ request[FirstCaller] = [fn |-> "write_single_register", addr |-> 16384, cnt |-> 1,
                             data |-> <<255>>]
  /\ Returned(FirstCaller) = [kind |-> "ModbusException", code |-> "IllegalDataAddress"]
  /\ FacadeReturn("DigitalIO", Op("set_device_address", <<255>>), outcome[FirstCaller])
       = Returned(FirstCaller)

\* C17: no step changes a facade's unit_id, a successful
\* set_device_address included, and every select a facade makes selects
\* that unit_id.
C17_UnitIdNeverChanges ==
  [][/\ unit_id' = unit_id
     /\ \A c \in Callers :
          (Facade(c) /\ pc[c] = "set_slave_locked" /\ pc'[c] \in {"lock", "idle"}) =>
            slave' = unit_id[c]]_vars

C17_Witness ==
  \E c \in Callers :
    /\ Facade(c) /\ pc[c] = "yielded"
    /\ op[c].name = "set_device_address" /\ outcome[c].tag = "Ok"
    /\ op[c].args[1] # unit_id[c]
    /\ selected[c] = <<unit_id[c]>>

\* C18: AnalogInput::read_control_mode reads one holding register at
\* AnalogMode + channel; it returns InvalidControlMode only for a
\* successful read of a value outside 0x0000..0x0004, the transport error
\* or the protocol exception when the transaction fails, and the matching
\* mode for a defined code.
C18_ReadControlMode ==
  \A c \in Callers :
    (/\ Facade(c) /\ class[c] = "AnalogInput" /\ op[c].name = "read_control_mode"
     /\ pc[c] \in {"in_flight", "yielded"}) =>
      /\ request[c] = [fn |-> "read_holding_registers", addr |-> 4096 + op[c].args[1],
                       cnt |-> 1, data |-> <<>>]
      /\ pc[c] = "yielded" =>
           LET out == outcome[c]
               res == Returned(c)
           IN /\ res.kind = "InvalidControlMode" =>
                   (out.tag = "Ok" /\ Len(out.data) > 0 /\ out.data[1] \notin 0 .. 4)
              /\ out.tag = "Err" => res = [kind |-> "ModbusError", err |-> out.err]
              /\ out.tag = "Exception" => res = [kind |-> "ModbusException", code |-> out.code]
              /\ (out.tag = "Ok" /\ Len(out.data) > 0 /\ out.data[1] \in 0 .. 4) =>
                   res = [kind |-> "Ok",
                          value |-> <<"V0V10", "V2V10", "C0C20", "C4C20", "RAW">>[out.data[1] + 1]]
              /\ (out.tag = "Ok" /\ Len(out.data) > 0 /\ out.data[1] \notin 0 .. 4) =>
                   res = [kind |-> "InvalidControlMode"]

C18_Witness ==
  \E c \in Callers :
    /\ Facade(c) /\ class[c] = "AnalogInput" /\ op[c].name = "read_control_mode"
    /\ op[c].args = <<7>>
    /\ pc[c] = "yielded"
    /\ request[c].addr = 4103
    /\ outcome[c] = Ok(<<5>>)
    /\ Returned(c) = [kind |-> "InvalidControlMode"]
    /\ ReturnOf(c, Ok(<<4>>)) = [kind |-> "Ok", value |-> "RAW"]

\* C19: DigitalIO::open_all_outputs and close_all_outputs each start
\* exactly one transaction, a write-single-coil at the control-all address
\* 0x00FF, with true for open_all_outputs and false for close_all_outputs;
\* no per-channel coil address is written.
C19_ControlAllOutputs ==
  \A c \in Callers :
    (/\ Facade(c) /\ class[c] = "DigitalIO"
     /\ op[c].name \in {"open_all_outputs", "close_all_outputs"}
     /\ pc[c] \in {"in_flight", "yielded"}) =>
      /\ sent[c] = 1
      /\ request[c] = [fn |-> "write_single_coil", addr |-> 255, cnt |-> 1,
                       data |-> <<op[c].name = "open_all_outputs">>]
      /\ request[c].addr \notin 0 .. 7

C19_Witness ==
  \E c \in Callers :
    /\ Facade(c) /\ class[c] = "DigitalIO" /\ op[c].name = "close_all_outputs"
    /\ pc[c] = "yielded" /\ outcome[c].tag = "Ok" /\ sent[c] = 1
    /\ request[c] = [fn |-> "write_single_coil", addr |-> 255, cnt |-> 1, data |-> <<FALSE>>]
    /\ Returned(c).kind = "Ok"

\* C20: DigitalIO::read_input_channel_status returns success with false
\* when read-discrete-inputs succeeds with an empty result, and the first
\* element when the result is not empty.
C20_EmptyReadIsFalse ==
  \A c \in Callers :
    (/\ Facade(c) /\ class[c] = "DigitalIO" /\ op[c].name = "read_input_channel_status"
     /\ pc[c] = "yielded" /\ outcome[c].tag = "Ok") =>
      /\ request[c].fn = "read_discrete_inputs"
      /\ Len(outcome[c].data) = 0 => Returned(c) = [kind |-> "Ok", value |-> FALSE]
      /\ Len(outcome[c].data) > 0 => Returned(c) = [kind |-> "Ok", value |-> outcome[c].data[1]]

C20_Witness ==
  \E c \in Callers :
    /\ Facade(c) /\ class[c] = "DigitalIO" /\ op[c].name = "read_input_channel_status"
    /\ pc[c] = "yielded"
    /\ outcome[c] = Ok(<<>>)
    /\ Returned(c) = [kind |-> "Ok", value |-> FALSE]
    /\ ReturnOf(c, Ok(<<TRUE>>)) = [kind |-> "Ok", value |-> TRUE]

\* C21: in the IoBank decoded from a byte, ch_i is true exactly when bit i
\* (value 2^i) of the byte is set, and as_action_array()[i] is On exactly
\* when ch_i is true and Off otherwise, for every byte and i in 0..7.
C21_BitIsChannel ==
  applied.fn = "IoBank" =>
    \A i \in 0 .. 7 :
      /\ result.bank[i + 1] = ((applied.args[1] \div (2 ^ i)) % 2 = 1)
      /\ result.actions[i + 1] = (IF result.bank[i + 1] THEN 65280 ELSE 0)

C21_Witness ==
  /\ applied = [fn |-> "IoBank", args |-> <<19>>]
  /\ result.bank = <<TRUE, TRUE, FALSE, FALSE, TRUE, FALSE, FALSE, FALSE>>
  /\ result.actions = <<65280, 65280, 0, 0, 65280, 0, 0, 0>>

\* C22: when all the facades on one ThreadSafeContext have the same
\* unit_id and the context is used through them only, every transaction
\* is sent while the selected slave is the issuing facade's unit_id,
\* whatever the interleaving.
C22_SameUnitIdIsSafe ==
  (\A c, d \in Callers : unit_id[c] = unit_id[d]) =>
    \A c \in Callers :
      (Facade(c) /\ pc[c] \in {"lock", "in_flight", "yielded"}) => slave = unit_id[c]

C22_Witness ==
  \E c, d \in Callers :
    /\ c # d /\ unit_id[c] = unit_id[d]
    /\ class[c] = "AnalogInput" /\ class[d] = "DigitalIO"
    /\ op[c].name = "read_input_channels" /\ pc[c] = "in_flight"
    /\ pc[d] = "lock" /\ selected[d] = <<unit_id[d]>> /\ interleaved[d]
    /\ slave = unit_id[c]

\* C23: the selected slave changes only in a step of set_slave, to that
\* call's argument; every step of a transaction operation, successful or
\* failed, leaves it as it was, so a transaction issued directly on the
\* context goes to the slave selected last.
C23_SlaveChangesOnlyInSetSlave ==
  [][/\ slave' # slave =>
          \E c \in Callers :
            /\ pc[c] = "set_slave_locked" /\ pc'[c] # "set_slave_locked"
            /\ slave' = SlaveArg(c)
     /\ \A c \in Callers :
          (pc[c] \in {"lock", "in_flight", "yielded"} /\ pc'[c] # pc[c]) => slave' = slave]_vars

C23_Witness ==
  \E c, d \in Callers :
    /\ ~Facade(c) /\ op[c].name = "read_coils" /\ pc[c] = "yielded"
    /\ outcome[c].tag = "Err"
    /\ Facade(d) /\ pc[d] = "lock" /\ selected[d] = <<unit_id[d]>>
    /\ unit_id[d] # unit_id[c]
    /\ slave = unit_id[d]

\* the positions of an operation that has started and not ended
Pending == {"set_slave_lock", "set_slave_locked", "lock", "in_flight", "yielded"}

\* no operation asks for the lock while it holds it, and while an
\* operation is pending some operation can take a step
C24_NoDeadlock ==
  /\ \A c \in Callers : pc[c] \in {"set_slave_lock", "lock"} => lock # c
  /\ (\E c \in Callers : pc[c] \in Pending) =>
       \E c \in Callers :
         ENABLED (\/ set_slave_lock(c) \/ set_slave(c) \/ primitive_lock(c)
                  \/ primitive_yield(c) \/ primitive_return(c))

\* every pending operation eventually ends, by returning or by unwinding
C24_EveryOperationEnds ==
  \A c \in Callers : (pc[c] \in Pending) ~> (pc[c] \in {"idle", "panicked"})

\* C24: with a transport that answers every transaction and a fair lock,
\* every facade operation eventually returns.
C24_EveryOperationReturns ==
  \A c \in Callers : (pc[c] \in Pending) ~> (pc[c] = "idle")

\* the primitives that address holding registers
HoldingFns == {"write_single_register", "read_holding_registers"}

\* C25: within a class the holding-register addresses base + channel of
\* operations with distinct bases never coincide, for all channels 0..7,
\* nor do they coincide with the common registers 0x2000, 0x4000 and
\* 0x8000; the control-all coil 0x00FF is outside the output coils
\* 0x0000..0x0007; and base + channel never wraps around 16 bits.
C25_AddressesDisjoint ==
  \A c \in Callers :
    (Out(c) /\ op[c].name \in ChannelOpNames) =>
      LET cls == class[c]
          index == ChannelArg(op[c])
          addr == request[c].addr
      IN /\ BaseOf(cls, op[c].name) + index < 65536
         /\ addr = BaseOf(cls, op[c].name) + index
         /\ request[c].fn \in HoldingFns =>
              /\ \A ch \in Channel : \A o2 \in ChannelOps(cls, ch) :
                   (/\ FacadeRequest(cls, o2).fn \in HoldingFns
                    /\ BaseOf(cls, o2.name) # BaseOf(cls, op[c].name)) =>
                     FacadeRequest(cls, o2).addr # addr
              /\ \A o3 \in AllCommonOps : FacadeRequest(cls, o3).addr # addr
              /\ addr \notin {8192, 16384, 32768}
         /\ request[c].fn = "write_single_coil" =>
              /\ addr \in 0 .. 7
              /\ DigitalIO_open_all_outputs.addr = 255
              /\ DigitalIO_close_all_outputs.addr = 255
              /\ addr # DigitalIO_open_all_outputs.addr
              /\ addr # DigitalIO_close_all_outputs.addr

C25_Witness ==
  /\ class[FirstCaller] = "DigitalIO" /\ pc[FirstCaller] = "in_flight"
  /\ op[FirstCaller].name = "flash_output_on" /\ ChannelArg(op[FirstCaller]) = 7
  /\ request[FirstCaller].fn = "write_single_register"
  /\ request[FirstCaller].addr = 519
  /\ DigitalIO_flash_output_off(0, 0).addr = 1024
  /\ DigitalIO_set_output_control_mode(0, 0).addr = 4096

====
